---------------------------- MODULE Spec2Model ----------------------------
(***************************************************************************)
(* Recording-and-synchronisation pipeline of VisuFix-AI-TTS.               *)
(*                                                                         *)
(*   VideoGenerationPoller  (services/runwayApi, src/unnamed/part_001)     *)
(*   VideoRecordingService  (src/src/services/videoRecordingService.ts)    *)
(*   handleDownloadMP4      (src/src/App.tsx)                              *)
(*                                                                         *)
(* JavaScript is single threaded: every action below is one run-to-        *)
(* completion task (an API call up to its first await, the continuation of *)
(* an await, a timer callback or a platform event handler).                *)
(***************************************************************************)
EXTENDS Integers, Sequences, FiniteSets, TLC

(***************************************************************************)
(* Bounds of the model.                                                    *)
(***************************************************************************)
\* pollUntilComplete calls whose state the model keeps
MaxCalls == 2
\* the remote job is terminal (or the check fails) by this check at the latest
MaxChecks == 3
\* external stopPolling() calls
MaxCancels == 2
\* startRecording calls whose session the model keeps
MaxSessions == 2
\* slices the chunk list holds
MaxChunks == 1
\* handleDownloadMP4 invocations whose run the model keeps
MaxRuns == 2
\* text elements on the canvas
MaxTexts == 2
\* clicks on Play TTS whose narration the model keeps
MaxPlays == 1
\* clicks on Stop TTS
MaxStops == 2

Calls == 1..MaxCalls

(***************************************************************************)
(* VideoGenerationPoller                                                   *)
(***************************************************************************)
VARIABLES
    isPolling,      \* VideoGenerationPoller.isPolling
    intervalId,     \* VideoGenerationPoller.intervalId: NoTimer (null) or a timer id
    pollPromise,    \* per call: "none" | "pending" | "resolved" | "rejected"
    pollValue,      \* per call: what the promise settled with
    inFlight,       \* per call: a checkVideoStatus request is awaiting its answer
    timerArmed,     \* per call: the setTimeout(poll, intervalMs) that is pending
    checks,         \* per call: number of checkVideoStatus requests issued
    updates,        \* per call: the statuses handed to onUpdate, in order
    returned,       \* per call: what each check produced, in order (history)
    cancels,        \* number of external stopPolling() calls (history)
    cancelPhase,    \* per call: where the call was when stopPolling() first hit it
    checksAtCancel  \* per call: checks issued when stopPolling() first hit it

pollerVars == <<isPolling, intervalId, pollPromise, pollValue, inFlight, timerArmed,
                checks, updates, returned, cancels, cancelPhase, checksAtCancel>>

NoTimer == <<>>
NoValue == [kind |-> "none"]

\* VideoStatusResponse: the status and the payload that travels with it
StatusNames == {"PENDING", "RUNNING", "SUCCEEDED", "FAILED"}
Terminal == {"SUCCEEDED", "FAILED"}
StatusResponses ==
    [status : {"PENDING", "RUNNING"}, progress : {10, 60}, error : {"none"}]
      \cup [status : {"SUCCEEDED"}, progress : {60, 100}, error : {"none"}]
      \cup [status : {"FAILED"}, progress : {10}, error : {"none", "quota"}]

\* What fetch() can do for GET /video-status/{taskId}
FetchOutcomes ==
    [kind : {"ok"}, body : StatusResponses]
      \cup [kind : {"http"}, code : {401, 500}, error : {"none", "unauthorized"}]
      \cup [kind : {"network"}]

\* The remote job is bounded: by check number MaxChecks it is terminal.
FetchOutcomesAt(k) ==
    IF k < MaxChecks THEN FetchOutcomes
    ELSE {o \in FetchOutcomes : o.kind = "ok" => o.body.status \in Terminal}

\* new AIVideoError(message, statusCode)
AIVideoError(message, code) == [kind |-> "AIVideoError", message |-> message, code |-> code]

\* checkVideoStatus: the typed status, or the AIVideoError it throws
checkVideoStatus(o) ==
    CASE o.kind = "ok" -> [ok |-> TRUE, status |-> o.body]
      [] o.kind = "http" ->
           [ok |-> FALSE,
            error |-> AIVideoError(IF o.error # "none" THEN o.error
                                   ELSE "Status check failed with status", o.code)]
      [] OTHER ->
           [ok |-> FALSE,
            error |-> AIVideoError("Failed to check video status: network", 0)]

\* clearTimeout(id): a pending timer with that id is removed; a fired one is not there
clearTimeout(armed, id) ==
    [c \in Calls |-> IF id # NoTimer /\ id = <<c, checks[c]>> THEN FALSE ELSE armed[c]]

\* Mutant: the flag is cleared but the pending timer is left to fire
stopPolling_keepsTimer(id, armed) ==
    <<FALSE, NoTimer, armed>>

\* stopPolling(): the new <<isPolling, intervalId, timerArmed>>
stopPolling(id, armed) ==
    IF id # NoTimer THEN <<FALSE, NoTimer, clearTimeout(armed, id)>>
    ELSE <<FALSE, id, armed>>

\* onUpdate(status): the caller sees every status a check returns
\* Mutant: terminal statuses are settled without telling the caller
deliverUpdate_terminalSkipped(seen, status) ==
    IF status.status \in Terminal THEN seen ELSE Append(seen, status)

deliverUpdate(seen, status) ==
    Append(seen, status)

\* Mutant: a FAILED job is polled again like a running one
pollDecision_failedContinues(status, polling) ==
    CASE status.status = "SUCCEEDED" -> "resolve"
      [] ~polling -> "cancelled"
      [] OTHER -> "schedule"

\* Mutant: the isPolling flag is not looked at before the next check is scheduled
pollDecision_ignoresCancel(status, polling) ==
    CASE status.status = "SUCCEEDED" -> "resolve"
      [] status.status = "FAILED" -> "reject"
      [] OTHER -> "schedule"

\* The branch poll() takes after onUpdate(status) has returned
pollDecision(status, polling) ==
    CASE status.status = "SUCCEEDED" -> "resolve"
      [] status.status = "FAILED" -> "reject"
      [] ~polling -> "cancelled"
      [] OTHER -> "schedule"

\* Mutant: a failed check is tried again after the interval
pollCatch_retries == "retry"

\* The catch block of poll(): stopPolling(), reject(error)
pollCatch == "reject"

\* resolve()/reject() of an already settled promise do nothing
Settle(c, kind, value) ==
    IF pollPromise[c] = "pending"
    THEN /\ pollPromise' = [pollPromise EXCEPT ![c] = kind]
         /\ pollValue' = [pollValue EXCEPT ![c] = value]
    ELSE UNCHANGED <<pollPromise, pollValue>>

PhaseOf(c) ==
    CASE pollPromise[c] # "pending" -> "settled"
      [] inFlight[c] -> "inflight"
      [] timerArmed[c] -> "timer"
      [] OTHER -> "stuck"

\* History: the first stopPolling() that reaches a pending call, made in phase ph
NoteCancel(ph) ==
    /\ cancelPhase' = [c \in Calls |->
          IF cancelPhase[c] = "none" /\ pollPromise[c] = "pending" THEN ph[c]
          ELSE cancelPhase[c]]
    /\ checksAtCancel' = [c \in Calls |->
          IF cancelPhase[c] = "none" /\ pollPromise[c] = "pending" THEN checks[c]
          ELSE checksAtCancel[c]]

PollerInit ==
    /\ isPolling = FALSE
    /\ intervalId = NoTimer
    /\ pollPromise = [c \in Calls |-> "none"]
    /\ pollValue = [c \in Calls |-> NoValue]
    /\ inFlight = [c \in Calls |-> FALSE]
    /\ timerArmed = [c \in Calls |-> FALSE]
    /\ checks = [c \in Calls |-> 0]
    /\ updates = [c \in Calls |-> <<>>]
    /\ returned = [c \in Calls |-> <<>>]
    /\ cancels = 0
    /\ cancelPhase = [c \in Calls |-> "none"]
    /\ checksAtCancel = [c \in Calls |-> 0]

\* Mutant: the first poll() waits one interval like the later ones
PollUntilComplete_delayed(c) ==
    /\ pollPromise[c] = "none"
    /\ isPolling' = TRUE
    /\ pollPromise' = [pollPromise EXCEPT ![c] = "pending"]
    /\ intervalId' = <<c, 0>>
    /\ timerArmed' = [timerArmed EXCEPT ![c] = TRUE]
    /\ UNCHANGED <<pollValue, inFlight, checks, updates, returned, cancels,
                   cancelPhase, checksAtCancel>>

\* pollUntilComplete(taskId, onUpdate): isPolling = true, then poll() runs up to
\* its await: the first checkVideoStatus request is issued at once.
PollUntilComplete(c) ==
    /\ pollPromise[c] = "none"
    /\ isPolling' = TRUE
    /\ pollPromise' = [pollPromise EXCEPT ![c] = "pending"]
    /\ inFlight' = [inFlight EXCEPT ![c] = TRUE]
    /\ checks' = [checks EXCEPT ![c] = 1]
    /\ UNCHANGED <<intervalId, pollValue, timerArmed, updates, returned, cancels,
                   cancelPhase, checksAtCancel>>

\* The continuation of poll() after `await checkVideoStatus(taskId)`.
\* cb: the caller's onUpdate callback calls stopPolling() before it returns.
CheckSettles(c) ==
    /\ inFlight[c]
    /\ \E o \in FetchOutcomesAt(checks[c]), cb \in BOOLEAN :
         LET r == checkVideoStatus(o)
             afterCb == IF r.ok /\ cb THEN stopPolling(intervalId, timerArmed)
                        ELSE <<isPolling, intervalId, timerArmed>>
             decision == IF r.ok THEN pollDecision(r.status, afterCb[1]) ELSE pollCatch
             stopped == stopPolling(afterCb[2], afterCb[3])
         IN
         /\ cb => r.ok /\ cancels < MaxCancels
         /\ inFlight' = [inFlight EXCEPT ![c] = FALSE]
         /\ returned' = [returned EXCEPT ![c] = Append(@, r)]
         /\ updates' = [updates EXCEPT ![c] = IF r.ok THEN deliverUpdate(@, r.status) ELSE @]
         /\ cancels' = IF cb THEN cancels + 1 ELSE cancels
         /\ IF cb THEN NoteCancel([d \in Calls |-> IF d = c THEN "update" ELSE PhaseOf(d)])
            ELSE UNCHANGED <<cancelPhase, checksAtCancel>>
         /\ CASE decision = "resolve" ->
                   /\ isPolling' = stopped[1]
                   /\ intervalId' = stopped[2]
                   /\ timerArmed' = stopped[3]
                   /\ Settle(c, "resolved", [kind |-> "status", status |-> r.status])
              [] decision = "reject" ->
                   /\ isPolling' = stopped[1]
                   /\ intervalId' = stopped[2]
                   /\ timerArmed' = stopped[3]
                   /\ Settle(c, "rejected",
                             IF r.ok
                             THEN [kind |-> "error",
                                   error |-> AIVideoError(
                                       IF r.status.error # "none" THEN r.status.error
                                       ELSE "Video generation failed", 0)]
                             ELSE [kind |-> "error", error |-> r.error])
              [] decision = "cancelled" ->
                   /\ isPolling' = afterCb[1]
                   /\ intervalId' = afterCb[2]
                   /\ timerArmed' = afterCb[3]
                   /\ Settle(c, "rejected",
                             [kind |-> "error",
                              error |-> AIVideoError("Video generation was cancelled", 0)])
              [] decision = "schedule" ->
                   /\ isPolling' = afterCb[1]
                   /\ intervalId' = <<c, checks[c]>>
                   /\ timerArmed' = [afterCb[3] EXCEPT ![c] = TRUE]
                   /\ UNCHANGED <<pollPromise, pollValue>>
              [] OTHER -> \* a mutated catch that retries: poll() is scheduled again
                   /\ isPolling' = afterCb[1]
                   /\ intervalId' = <<c, checks[c]>>
                   /\ timerArmed' = [afterCb[3] EXCEPT ![c] = TRUE]
                   /\ UNCHANGED <<pollPromise, pollValue>>
    /\ UNCHANGED checks

\* Mutant: the timer is an interval, it stays armed after it has fired
TimerFires_interval(c) ==
    /\ timerArmed[c]
    /\ checks[c] < MaxChecks + 2
    /\ inFlight' = [inFlight EXCEPT ![c] = TRUE]
    /\ checks' = [checks EXCEPT ![c] = @ + 1]
    /\ UNCHANGED <<isPolling, intervalId, pollPromise, pollValue, timerArmed, updates,
                   returned, cancels, cancelPhase, checksAtCancel>>

\* The setTimeout(poll, intervalMs) callback: poll() issues the next request.
TimerFires(c) ==
    /\ timerArmed[c]
    /\ timerArmed' = [timerArmed EXCEPT ![c] = FALSE]
    /\ inFlight' = [inFlight EXCEPT ![c] = TRUE]
    /\ checks' = [checks EXCEPT ![c] = @ + 1]
    /\ UNCHANGED <<isPolling, intervalId, pollPromise, pollValue, updates, returned,
                   cancels, cancelPhase, checksAtCancel>>

\* stopPolling() called by the owner of the poller (cancel)
StopPolling ==
    /\ cancels < MaxCancels
    /\ cancels' = cancels + 1
    /\ LET s == stopPolling(intervalId, timerArmed) IN
         /\ isPolling' = s[1]
         /\ intervalId' = s[2]
         /\ timerArmed' = s[3]
    /\ NoteCancel([d \in Calls |-> PhaseOf(d)])
    /\ UNCHANGED <<pollPromise, pollValue, inFlight, checks, updates, returned>>


(***************************************************************************)
(* VideoRecordingService                                                   *)
(*                                                                         *)
(* A session is one startRecording call, numbered in call order.  The      *)
(* platform objects a call creates carry its number: the canvas stream and *)
(* its video track, the microphone track, the MediaStream that combines    *)
(* them and the MediaRecorder.  The service fields hold 0 for null or the  *)
(* number of the object they refer to.                                     *)
(***************************************************************************)
Sessions == 1..MaxSessions

VARIABLES
    supported,       \* what isSupported() answers on this platform
    isRecording,     \* VideoRecordingService.isRecording
    mediaRecorder,   \* VideoRecordingService.mediaRecorder
    canvasStream,    \* VideoRecordingService.canvasStream
    mixedStream,     \* VideoRecordingService.mixedStream
    recordedChunks,  \* VideoRecordingService.recordedChunks: the recorder of each slice
    pcStart,         \* per call: "idle" | "awaitMic" | "resolved" | "refused" | "failed"
    vtrack,          \* per session: its canvas video track: "none" | "live" | "ended"
    atrack,          \* per session: its microphone track: "none" | "live" | "ended"
    mixedVideo,      \* per session: whose video track its MediaStream holds (0: none)
    recState,        \* per session: MediaRecorder.state: "none" | "recording" | "inactive"
    recPhase,        \* per session: events delivered: "none" | "startQueued" | "started" | "stopped"
    ended            \* per session: the session has ended (history)

recVars == <<supported, isRecording, mediaRecorder, canvasStream,
             mixedStream, recordedChunks, pcStart, vtrack, atrack, mixedVideo,
             recState, recPhase, ended>>

\* A session is active from its startRecording call until its resource release
Active(s) ==
    \/ pcStart[s] = "awaitMic"
    \/ pcStart[s] = "resolved" /\ ~ended[s]

\* track.stop() on every track of the stream
StopTrack(tracks, which) ==
    [s \in Sessions |-> IF which[s] /\ tracks[s] = "live" THEN "ended" ELSE tracks[s]]

\* The tracks of the MediaStream made by call m (m = 0: no stream)
VideoOfMixed(m, mv) == [s \in Sessions |-> m # 0 /\ mv[m] = s]
AudioOfMixed(m, mv) == [s \in Sessions |-> m # 0 /\ mv[m] # 0 /\ s = m]

\* cleanup(), the tracks: every track of canvasStream and of mixedStream is stopped.
\* vt, at: the tracks; cs, ms: this.canvasStream, this.mixedStream; mv: mixedVideo
cleanupTracks(vt, at, cs, ms, mv) ==
    <<StopTrack(vt, [s \in Sessions |-> s = cs \/ VideoOfMixed(ms, mv)[s]]),
      StopTrack(at, AudioOfMixed(ms, mv))>>

\* cleanup(), the fields: streams and recorder dropped, isRecording reset
cleanupFields ==
    /\ canvasStream' = 0
    /\ mixedStream' = 0
    /\ mediaRecorder' = 0
    /\ isRecording' = FALSE

\* Strings whose characters matter (a substring test reads them) are sequences
\* of characters; these are the parts the media type strings are made of
StrVideo == <<"v", "i", "d", "e", "o", "/">>
StrWebm == <<"w", "e", "b", "m">>
StrMp4 == <<"m", "p", "4">>
StrCodecs == <<";", "c", "o", "d", "e", "c", "s", "=">>
StrVp9 == <<"v", "p", "9">>
StrVp8 == <<"v", "p", "8">>
StrH264 == <<"h", "2", "6", "4">>
StrOpus == <<",", "o", "p", "u", "s">>
StrAac == <<",", "a", "a", "c">>

\* 'video/webm', the default of startRecording and of onstop
DefaultMimeType == StrVideo \o StrWebm

\* The list of getSupportedMimeTypes(), in its order of preference
PreferredTypes ==
    <<StrVideo \o StrWebm \o StrCodecs \o StrVp9 \o StrOpus,
      StrVideo \o StrWebm \o StrCodecs \o StrVp8 \o StrOpus,
      StrVideo \o StrWebm \o StrCodecs \o StrH264 \o StrOpus,
      StrVideo \o StrWebm,
      StrVideo \o StrMp4 \o StrCodecs \o StrH264 \o StrAac,
      StrVideo \o StrMp4>>

\* A platform is the set of types its MediaRecorder.isTypeSupported accepts
Platforms == SUBSET {PreferredTypes[i] : i \in 1..Len(PreferredTypes)}

\* getSupportedMimeTypes() on a platform: the supported types, in list order
getSupportedMimeTypes(platform) ==
    SelectSeq(PreferredTypes, LAMBDA t : t \in platform)

\* No mimeType is passed in the options (handleDownloadMP4 passes none); the
\* empty string counts as none
NoMimeOption == <<>>

\* startRecording: the mimeType the MediaRecorder is constructed with
negotiatedMimeType(option, supportedTypes) ==
    IF option # NoMimeOption THEN option
    ELSE IF supportedTypes # <<>> THEN supportedTypes[1]
    ELSE DefaultMimeType

\* onstop: the blob's type, this.mediaRecorder?.mimeType || 'video/webm'.
\* mr: this.mediaRecorder when the stop handler runs (0: null)
blobMimeType(mr, option, platform) ==
    IF mr # 0 THEN negotiatedMimeType(option, getSupportedMimeTypes(platform))
    ELSE DefaultMimeType

\* onstop: new Blob(this.recordedChunks, { type: mimeType })
Blob(chunks, type) == [chunks |-> chunks, type |-> type]

\* Mutant: the capability test at the head of startRecording is left out
startGuard_noCapabilityTest(sup, recording) ==
    IF recording THEN "inProgress" ELSE "go"

\* The two guards at the head of startRecording
startGuard(sup, recording) ==
    CASE ~sup -> "unsupported"
      [] recording -> "inProgress"
      [] OTHER -> "go"

RecorderInit ==
    /\ supported \in BOOLEAN
    /\ isRecording = FALSE
    /\ mediaRecorder = 0
    /\ canvasStream = 0
    /\ mixedStream = 0
    /\ recordedChunks = <<>>
    /\ pcStart = [s \in Sessions |-> "idle"]
    /\ vtrack = [s \in Sessions |-> "none"]
    /\ atrack = [s \in Sessions |-> "none"]
    /\ mixedVideo = [s \in Sessions |-> 0]
    /\ recState = [s \in Sessions |-> "none"]
    /\ recPhase = [s \in Sessions |-> "none"]
    /\ ended = [s \in Sessions |-> FALSE]

\* startRecording(canvas, options) up to `await getUserMedia(...)`.
\* captureOk: canvas.captureStream(30) returns a stream (else it throws).
StartRecording(s) ==
    /\ pcStart[s] = "idle"
    /\ \A t \in Sessions : t < s => pcStart[t] # "idle"
    /\ \E captureOk \in BOOLEAN :
         LET g == startGuard(supported, isRecording) IN
         CASE g # "go" ->
                /\ pcStart' = [pcStart EXCEPT ![s] = "refused"]
                /\ UNCHANGED <<isRecording, mediaRecorder, canvasStream, mixedStream,
                               recordedChunks, vtrack, atrack, ended>>
           [] g = "go" /\ captureOk ->
                /\ recordedChunks' = <<>>
                /\ canvasStream' = s
                /\ vtrack' = [vtrack EXCEPT ![s] = "live"]
                /\ pcStart' = [pcStart EXCEPT ![s] = "awaitMic"]
                /\ UNCHANGED <<isRecording, mediaRecorder, mixedStream, atrack, ended>>
           [] OTHER -> \* captureStream threw: catch, cleanup(), rethrow
                LET t == cleanupTracks(vtrack, atrack, canvasStream, mixedStream, mixedVideo) IN
                /\ recordedChunks' = <<>>
                /\ vtrack' = t[1]
                /\ atrack' = t[2]
                /\ cleanupFields
                /\ pcStart' = [pcStart EXCEPT ![s] = "failed"]
                /\ ended' = [ended EXCEPT ![s] = TRUE]
    /\ UNCHANGED <<supported, mixedVideo, recState, recPhase>>

\* What the MediaRecorder does at setup: nothing wrong, its constructor throws,
\* or its start(100) throws
Setups == {"ok", "ctorThrows", "startThrows"}

\* Mutant: a denied microphone fails the call
setupOutcome_needsMic(micOk, tracksAdded, setup) ==
    IF micOk /\ tracksAdded /\ setup = "ok" THEN "resolved" ELSE "failed"

\* How startRecording ends after getUserMedia has settled.  A rejected
\* getUserMedia is caught by the inner try (a warning is logged) and the call
\* goes on without an audio track.
setupOutcome(micOk, tracksAdded, setup) ==
    IF tracksAdded /\ setup = "ok" THEN "resolved" ELSE "failed"

\* startRecording after `await getUserMedia(...)` has settled, to its end.
\* micOk: the microphone was granted; setup: what the MediaRecorder does
\*   ("ok", its constructor throws, or its start(100) throws).
MicSettles(s) ==
    /\ pcStart[s] = "awaitMic"
    /\ \E micOk \in BOOLEAN, setup \in Setups :
         LET at1 == IF micOk THEN [atrack EXCEPT ![s] = "live"] ELSE atrack
             \* this.canvasStream.getVideoTracks() on null throws a TypeError
             tracksAdded == canvasStream # 0
             mv1 == IF tracksAdded THEN [mixedVideo EXCEPT ![s] = canvasStream]
                    ELSE mixedVideo
             t == cleanupTracks(vtrack, at1, canvasStream, s, mv1)
         IN
         /\ mixedVideo' = mv1
         /\ IF setupOutcome(micOk, tracksAdded, setup) = "resolved"
            THEN /\ mixedStream' = s
                 /\ mediaRecorder' = s
                 /\ atrack' = at1
                 /\ recState' = [recState EXCEPT ![s] = "recording"]
                 /\ recPhase' = [recPhase EXCEPT ![s] = "startQueued"]
                 /\ pcStart' = [pcStart EXCEPT ![s] = "resolved"]
                 /\ UNCHANGED <<isRecording, canvasStream, vtrack, ended>>
            ELSE \* catch: cleanup(), throw 'Failed to start recording'
                 /\ vtrack' = t[1]
                 /\ atrack' = t[2]
                 /\ cleanupFields
                 /\ recState' = [recState EXCEPT ![s] =
                        IF tracksAdded /\ setup = "startThrows" THEN "inactive" ELSE @]
                 /\ pcStart' = [pcStart EXCEPT ![s] = "failed"]
                 /\ ended' = [ended EXCEPT ![s] = TRUE]
                 /\ UNCHANGED recPhase
    /\ UNCHANGED <<supported, recordedChunks>>

\* mediaRecorder.onstart
OnStart(s) ==
    /\ recPhase[s] = "startQueued"
    /\ recPhase' = [recPhase EXCEPT ![s] = "started"]
    /\ isRecording' = TRUE
    /\ UNCHANGED <<supported, mediaRecorder, canvasStream, mixedStream,
                   recordedChunks, pcStart, vtrack, atrack, mixedVideo, recState,
                   ended>>

\* Mutant: a slice is delivered while the start event is still queued
OnDataAvailable_early(s) ==
    /\ recPhase[s] \in {"startQueued", "started"}
    /\ Len(recordedChunks) < MaxChunks
    /\ \E size \in {0, 1} :
         recordedChunks' = IF size > 0 THEN Append(recordedChunks, s) ELSE recordedChunks
    /\ UNCHANGED <<supported, isRecording, mediaRecorder, canvasStream,
                   mixedStream, pcStart, vtrack, atrack, mixedVideo, recState, recPhase,
                   ended>>

\* mediaRecorder.ondataavailable; size: event.data.size.  An empty slice is dropped.
OnDataAvailable(s) ==
    /\ recPhase[s] = "started"
    /\ Len(recordedChunks) < MaxChunks
    /\ \E size \in {0, 1} :
         recordedChunks' = IF size > 0 THEN Append(recordedChunks, s) ELSE recordedChunks
    /\ UNCHANGED <<supported, isRecording, mediaRecorder, canvasStream,
                   mixedStream, pcStart, vtrack, atrack, mixedVideo, recState, recPhase,
                   ended>>

\* mediaRecorder.onstop: isRecording = false, the blob is built from recordedChunks
\* (Blob, blobMimeType) and handed to options.onStop, which keeps none of it in
\* the program's state; then cleanup()
OnStop(s) ==
    /\ recPhase[s] = "started"
    /\ recState[s] = "inactive"
    /\ recPhase' = [recPhase EXCEPT ![s] = "stopped"]
    /\ LET t == cleanupTracks(vtrack, atrack, canvasStream, mixedStream, mixedVideo) IN
         /\ vtrack' = t[1]
         /\ atrack' = t[2]
    /\ cleanupFields
    /\ ended' = [ended EXCEPT ![s] = TRUE]
    /\ UNCHANGED <<supported, recordedChunks, pcStart, mixedVideo,
                   recState>>

\* Mutant: the error handler reports the error and releases nothing
OnError_noRelease(s) ==
    /\ recPhase[s] = "started"
    /\ recState[s] = "recording"
    /\ recState' = [recState EXCEPT ![s] = "inactive"]
    /\ ended' = [ended EXCEPT ![s] = TRUE]
    /\ UNCHANGED <<supported, isRecording, mediaRecorder, canvasStream, mixedStream,
                   recordedChunks, pcStart, vtrack, atrack, mixedVideo, recPhase>>

\* mediaRecorder.onerror: onError, then cleanup().  The platform inactivates the
\* recorder with the error; its stop event follows.
OnError(s) ==
    /\ recPhase[s] = "started"
    /\ recState[s] = "recording"
    /\ recState' = [recState EXCEPT ![s] = "inactive"]
    /\ LET t == cleanupTracks(vtrack, atrack, canvasStream, mixedStream, mixedVideo) IN
         /\ vtrack' = t[1]
         /\ atrack' = t[2]
    /\ cleanupFields
    /\ ended' = [ended EXCEPT ![s] = TRUE]
    /\ UNCHANGED <<supported, recordedChunks, pcStart, mixedVideo,
                   recPhase>>

\* The platform stops a recorder all of whose tracks have ended; its stop event follows.
TracksEnded(s) ==
    /\ recState[s] = "recording"
    /\ vtrack[mixedVideo[s]] = "ended"
    /\ atrack[s] # "live"
    /\ recState' = [recState EXCEPT ![s] = "inactive"]
    /\ UNCHANGED <<supported, isRecording, mediaRecorder, canvasStream,
                   mixedStream, recordedChunks, pcStart, vtrack, atrack, mixedVideo,
                   recPhase, ended>>

\* stopRecording(): whether the call reaches this.mediaRecorder.stop()
stopReachesEngine(recording, mr) == recording /\ mr # 0

\* Mutant: stopRecording() tests the recorder handle only, not the flag
stopRecording_noFlagTest(recording, mr, rs) ==
    IF mr = 0 THEN rs
    ELSE [rs EXCEPT ![mr] = IF @ = "recording" THEN "inactive" ELSE @]

\* stopRecording(): the new recState.  On a recorder that is already inactive
\* MediaRecorder.stop() does nothing or throws InvalidStateError: no state changes.
stopRecording(recording, mr, rs) ==
    IF ~recording \/ mr = 0 THEN rs
    ELSE [rs EXCEPT ![mr] = IF @ = "recording" THEN "inactive" ELSE @]

\* stopRecording() called by the owner of the service
StopRecording ==
    /\ recState' = stopRecording(isRecording, mediaRecorder, recState)
    /\ UNCHANGED <<supported, isRecording, mediaRecorder, canvasStream,
                   mixedStream, recordedChunks, pcStart, vtrack, atrack, mixedVideo,
                   recPhase, ended>>

\* dispose(): stopRecording(), cleanup(), audioContext.close() (the audio context
\* is only ever created and closed: no other code of the service reads it).
\* stopThrows: MediaRecorder.stop() threw InvalidStateError on an inactive
\*   recorder, which ends dispose() before cleanup().
Dispose ==
    \E stopThrows \in BOOLEAN :
      /\ stopThrows => (isRecording /\ mediaRecorder # 0
                          /\ recState[mediaRecorder] = "inactive")
      /\ recState' = stopRecording(isRecording, mediaRecorder, recState)
      /\ IF stopThrows
         THEN UNCHANGED <<isRecording, mediaRecorder, canvasStream,
                          mixedStream, vtrack, atrack, ended>>
         ELSE /\ LET t == cleanupTracks(vtrack, atrack, canvasStream, mixedStream,
                                        mixedVideo) IN
                   /\ vtrack' = t[1]
                   /\ atrack' = t[2]
              /\ cleanupFields
              /\ ended' = [s \in Sessions |-> ended[s] \/ pcStart[s] = "resolved"]
      /\ UNCHANGED <<supported, recordedChunks, pcStart, mixedVideo, recPhase>>

(***************************************************************************)
(* App: handleDownloadMP4 (the orchestration) with handleTTSPlay           *)
(*                                                                         *)
(* A run is one invocation of handleDownloadMP4, numbered in call order.   *)
(* An invocation reads the React state of the latest render, and keeps the *)
(* textElements of that render for the whole run.  The handler is invoked  *)
(* as a function: the button's disabled attribute is not relied on.        *)
(*                                                                         *)
(* A narrator is one invocation of handleTTSPlay: the one a run makes      *)
(* carries the run's number, the ones made by the Play TTS button are      *)
(* numbered after the runs, in click order.                                *)
(***************************************************************************)
Runs == 1..MaxRuns
Plays == (MaxRuns + 1)..(MaxRuns + MaxPlays)
Narrators == Runs \cup Plays

VARIABLES
    canvasElement,     \* App state canvasElement: TRUE once onCanvasReady has set it
    textElements,      \* App state textElements
    recordingStatus,   \* App state recordingStatus: "idle" | "recording" | "processing"
    ttsStatus,         \* App state ttsStatus: "idle" | "playing" | "stopped"
    currentTextIndex,  \* App state currentTextIndex
    error,             \* App state error: "null" or the message shown
    ttsSupported,      \* what ttsService.isWebSpeechSupported() answers
    pcRun,             \* per run and play: where the invocation is
    runTexts,          \* per run and play: the textElements its closure holds
    runSession,        \* per run: the session its startRecording call made (0: none)
    statusAtInvoke,    \* per run: recordingStatus when it was invoked (history)
    narrIdx,           \* per narrator: the loop variable i of handleTTSPlay, plus one
    synthQueue,        \* speechSynthesis: the narrators whose utterance is queued, in order
    cancelled,         \* narrators whose utterance cancel() removed, error event not yet delivered
    spoken,            \* per narrator: the texts given to ttsService.speak, in order (history)
    indexLog,          \* per narrator: the arguments of its setCurrentTextIndex calls (history)
    finished,          \* per narrator: utterances whose onend has fired (history)
    pauses,            \* per narrator: 500 ms pauses begun (history)
    stopped,           \* per narrator: handleTTSStop ran while it was running (history)
    spokenAtStop,      \* per narrator: speak calls made when handleTTSStop first hit it (history)
    failedAt,          \* per narrator: the entry whose utterance failed (0: none) (history)
    queueAtPlay,       \* per play: textElements when the button was clicked (history)
    stops              \* number of handleTTSStop calls (history)

\* The narration history and the cancelled utterances
narrHist == <<cancelled, spoken, indexLog, finished, pauses, stopped, spokenAtStop,
              failedAt, queueAtPlay, stops>>

appVars == <<canvasElement, textElements, recordingStatus, ttsStatus, currentTextIndex,
             error, ttsSupported, pcRun, runTexts, runSession, statusAtInvoke,
             narrIdx, synthQueue, narrHist>>

\* The values of textElements: the texts of the text objects that are on the
\* canvas, in canvas order (text object k holds text k)
TextQueues ==
    {q \in UNION {[1..n -> 1..MaxTexts] : n \in 0..MaxTexts} :
        \A i, j \in 1..Len(q) : i < j => q[i] < q[j]}

\* Mutant: the in-progress test is left out
downloadGuard_noProgressTest(canvas, texts, sup, status) ==
    CASE ~canvas -> "canvasNotReady"
      [] Len(texts) = 0 -> "noText"
      [] ~sup -> "recordingUnsupported"
      [] OTHER -> "go"

\* Mutant: the test for an empty text list is left out
downloadGuard_noTextTest(canvas, texts, sup, status) ==
    CASE ~canvas -> "canvasNotReady"
      [] ~sup -> "recordingUnsupported"
      [] status = "recording" \/ status = "processing" -> "inProgress"
      [] OTHER -> "go"

\* The four guards at the head of handleDownloadMP4
downloadGuard(canvas, texts, sup, status) ==
    CASE ~canvas -> "canvasNotReady"
      [] Len(texts) = 0 -> "noText"
      [] ~sup -> "recordingUnsupported"
      [] status = "recording" \/ status = "processing" -> "inProgress"
      [] OTHER -> "go"

AppInit ==
    /\ canvasElement = FALSE
    /\ textElements = <<>>
    /\ recordingStatus = "idle"
    /\ ttsStatus = "idle"
    /\ currentTextIndex = 0
    /\ error = "null"
    /\ ttsSupported \in BOOLEAN
    /\ pcRun = [r \in Narrators |-> "idle"]
    /\ runTexts = [r \in Narrators |-> <<>>]
    /\ runSession = [r \in Runs |-> 0]
    /\ statusAtInvoke = [r \in Runs |-> "idle"]
    /\ narrIdx = [r \in Narrators |-> 0]
    /\ synthQueue = <<>>
    /\ cancelled = {}
    /\ spoken = [r \in Narrators |-> <<>>]
    /\ indexLog = [r \in Narrators |-> <<>>]
    /\ finished = [r \in Narrators |-> 0]
    /\ pauses = [r \in Narrators |-> 0]
    /\ stopped = [r \in Narrators |-> FALSE]
    /\ spokenAtStop = [r \in Narrators |-> 0]
    /\ failedAt = [r \in Narrators |-> 0]
    /\ queueAtPlay = [r \in Narrators |-> <<>>]
    /\ stops = 0

RunOf(s) == CHOOSE r \in Runs : runSession[r] = s

\* ImageCanvas: onCanvasReady(canvas)
CanvasReady ==
    /\ ~canvasElement
    /\ canvasElement' = TRUE
    /\ UNCHANGED <<textElements, recordingStatus, ttsStatus, currentTextIndex, error,
                   ttsSupported, pcRun, runTexts, runSession, statusAtInvoke, narrIdx,
                   synthQueue, narrHist>>
    /\ UNCHANGED recVars

\* ImageCanvas: onTextElementsChange(extractTextElements()) after a text object
\* was added to, changed on or removed from the canvas
SetTextElements ==
    /\ \E q \in TextQueues :
         /\ q # textElements
         /\ textElements' = q
    /\ UNCHANGED <<canvasElement, recordingStatus, ttsStatus, currentTextIndex, error,
                   ttsSupported, pcRun, runTexts, runSession, statusAtInvoke, narrIdx,
                   synthQueue, narrHist>>
    /\ UNCHANGED recVars

\* The catch block of handleDownloadMP4
RunCatch(r) ==
    /\ error' = "createVideoFailed"
    /\ recordingStatus' = "idle"
    /\ pcRun' = [pcRun EXCEPT ![r] = "failed"]

\* handleDownloadMP4(): the guards, setRecordingStatus('recording'), and
\* startRecording up to its first await (StartRecording); a startRecording that
\* rejects at once lands in the catch block.
HandleDownloadMP4(r) ==
    /\ pcRun[r] = "idle"
    /\ \A q \in Runs : q < r => pcRun[q] # "idle"
    /\ statusAtInvoke' = [statusAtInvoke EXCEPT ![r] = recordingStatus]
    /\ LET g == downloadGuard(canvasElement, textElements, supported, recordingStatus) IN
       IF g # "go"
       THEN /\ pcRun' = [pcRun EXCEPT ![r] = "refused"]
            /\ error' = IF g = "inProgress" THEN error ELSE g
            /\ UNCHANGED <<recordingStatus, runTexts, runSession>>
            /\ UNCHANGED recVars
       ELSE \E s \in Sessions :
            /\ StartRecording(s)
            /\ runTexts' = [runTexts EXCEPT ![r] = textElements]
            /\ runSession' = [runSession EXCEPT ![r] = s]
            /\ IF pcStart'[s] = "awaitMic"
               THEN /\ recordingStatus' = "recording"
                    /\ error' = "null"
                    /\ pcRun' = [pcRun EXCEPT ![r] = "starting"]
               ELSE RunCatch(r)
    /\ UNCHANGED <<canvasElement, textElements, ttsStatus, currentTextIndex,
                   ttsSupported, narrIdx, synthQueue, narrHist>>

\* getUserMedia settles: startRecording runs to its end (MicSettles); the run
\* goes on to its 500 ms wait, or to the catch block if startRecording rejected.
RunMicSettles(s) ==
    /\ MicSettles(s)
    /\ LET r == RunOf(s) IN
       IF pcStart'[s] = "resolved"
       THEN /\ pcRun' = [pcRun EXCEPT ![r] = "grace"]
            /\ UNCHANGED <<recordingStatus, error>>
       ELSE RunCatch(r)
    /\ UNCHANGED <<canvasElement, textElements, ttsStatus, currentTextIndex,
                   ttsSupported, runTexts, runSession, statusAtInvoke, narrIdx,
                   synthQueue, narrHist>>

\* options.onStop(blob): setRecordingStatus('processing'), downloadVideo,
\* setRecordingStatus('idle'), all in the recorder's stop handler (OnStop)
AppOnStop(s) ==
    /\ OnStop(s)
    /\ recordingStatus' = "idle"
    /\ UNCHANGED <<canvasElement, textElements, ttsStatus, currentTextIndex, error,
                   ttsSupported, pcRun, runTexts, runSession, statusAtInvoke, narrIdx,
                   synthQueue, narrHist>>

\* options.onError(error): setError, setRecordingStatus('idle'), in the
\* recorder's error handler (OnError)
AppOnError(s) ==
    /\ OnError(s)
    /\ error' = "recordingFailed"
    /\ recordingStatus' = "idle"
    /\ UNCHANGED <<canvasElement, textElements, ttsStatus, currentTextIndex,
                   ttsSupported, pcRun, runTexts, runSession, statusAtInvoke, narrIdx,
                   synthQueue, narrHist>>

\* What the loop of handleTTSPlay hands to speak: textElements[i] of its closure.
\* texts: the closure's textElements; live: the App's textElements now.
\* Mutant: the entry is read from the App's textElements of the moment
entryToSpeak_live(texts, live, i) ==
    IF i <= Len(live) THEN live[i] ELSE 0

entryToSpeak(texts, live, i) ==
    texts[i]

\* ttsService.speak(text): one utterance is made and handed to
\* speechSynthesis.speak, which queues it behind the utterances it already holds.
\* (currentUtterance is written here and in stop() and read by nothing.)
speak(r, text) ==
    /\ synthQueue' = Append(synthQueue, r)
    /\ cancelled' = cancelled
    /\ spoken' = [spoken EXCEPT ![r] = Append(@, text)]

\* Mutant: a run ends with its narration: no trailing wait, no stopRecording
AfterPlay_noTrailingWait(r, how) == how

\* Where a narrator is once handleTTSPlay has returned
AfterPlay(r, how) ==
    IF r \in Runs THEN "trailing" ELSE how

\* Mutant: the capability test is left out
playGuard_noCapabilityTest(texts, sup) ==
    CASE Len(texts) = 0 -> "noText"
      [] OTHER -> "go"

\* The two guards at the head of handleTTSPlay
playGuard(texts, sup) ==
    CASE Len(texts) = 0 -> "noText"
      [] ~sup -> "ttsUnsupported"
      [] OTHER -> "go"

\* handleTTSPlay() up to its first await, with texts the closure's textElements:
\* the guards, setTtsStatus('playing'), setCurrentTextIndex(0), and the first
\* turn of the loop (setCurrentTextIndex(0), speak(textElements[0])).
TTSPlayStart(r, texts) ==
    /\ queueAtPlay' = IF r \in Plays THEN [queueAtPlay EXCEPT ![r] = textElements]
                      ELSE queueAtPlay
    /\ LET g == playGuard(texts, ttsSupported) IN
       IF g # "go"
       THEN /\ error' = g
            /\ pcRun' = [pcRun EXCEPT ![r] = AfterPlay(r, "refused")]
            /\ UNCHANGED <<ttsStatus, currentTextIndex, narrIdx, synthQueue, cancelled,
                           spoken, indexLog>>
       ELSE /\ ttsStatus' = "playing"
            /\ currentTextIndex' = 0
            /\ indexLog' = [indexLog EXCEPT ![r] = <<0, 0>>]
            /\ narrIdx' = [narrIdx EXCEPT ![r] = 1]
            /\ speak(r, entryToSpeak(texts, textElements, 1))
            /\ pcRun' = [pcRun EXCEPT ![r] = "speaking"]
            /\ UNCHANGED error
    /\ UNCHANGED <<finished, pauses, stopped, spokenAtStop, failedAt, stops>>

\* The 500 ms wait is over: handleTTSPlay() runs up to its first await
GraceElapsed(r) ==
    /\ r \in Runs
    /\ pcRun[r] = "grace"
    /\ TTSPlayStart(r, runTexts[r])
    /\ UNCHANGED <<canvasElement, textElements, recordingStatus, ttsSupported, runTexts,
                   runSession, statusAtInvoke>>
    /\ UNCHANGED recVars

\* The Play TTS button while ttsStatus is not 'playing': handlePlayTTS() calls
\* handleTTSPlay(), which runs up to its first await.  The button is rendered
\* disabled while textElements is empty.
HandlePlayTTS(p) ==
    /\ p \in Plays
    /\ pcRun[p] = "idle"
    /\ \A q \in Plays : q < p => pcRun[q] # "idle"
    /\ ttsStatus # "playing"
    /\ Len(textElements) > 0
    /\ runTexts' = [runTexts EXCEPT ![p] = textElements]
    /\ TTSPlayStart(p, textElements)
    /\ UNCHANGED <<canvasElement, textElements, recordingStatus, ttsSupported,
                   runSession, statusAtInvoke>>
    /\ UNCHANGED recVars

\* A narrator whose handleTTSPlay has not returned
Narrating(r) == pcRun[r] \in {"speaking", "pausing"}

\* The Stop TTS button (the same button while ttsStatus is 'playing'):
\* handlePlayTTS() calls handleTTSStop(): speechSynthesis.cancel() empties the
\* engine's queue (each removed utterance is owed an error event),
\* setTtsStatus('stopped'), setCurrentTextIndex(0).
HandleTTSStop ==
    /\ ttsStatus = "playing"
    /\ stops < MaxStops
    /\ stops' = stops + 1
    /\ IF ttsSupported
       THEN /\ cancelled' = cancelled \cup {synthQueue[k] : k \in 1..Len(synthQueue)}
            /\ synthQueue' = <<>>
       ELSE UNCHANGED <<cancelled, synthQueue>>
    /\ ttsStatus' = "stopped"
    /\ currentTextIndex' = 0
    /\ stopped' = [r \in Narrators |-> stopped[r] \/ Narrating(r)]
    /\ spokenAtStop' = [r \in Narrators |->
          IF ~stopped[r] /\ Narrating(r) THEN Len(spoken[r]) ELSE spokenAtStop[r]]
    /\ UNCHANGED <<canvasElement, textElements, recordingStatus, error, ttsSupported,
                   pcRun, runTexts, runSession, statusAtInvoke, narrIdx, spoken,
                   indexLog, finished, pauses, failedAt, queueAtPlay>>
    /\ UNCHANGED recVars

\* Mutant: a pause is made after the last entry too
UtteranceEnds_pauseAfterLast(r) ==
    /\ pcRun[r] = "speaking"
    /\ synthQueue # <<>> /\ Head(synthQueue) = r
    /\ synthQueue' = Tail(synthQueue)
    /\ finished' = [finished EXCEPT ![r] = @ + 1]
    /\ pauses' = [pauses EXCEPT ![r] = @ + 1]
    /\ IF narrIdx[r] < Len(runTexts[r])
       THEN /\ pcRun' = [pcRun EXCEPT ![r] = "pausing"]
            /\ UNCHANGED <<ttsStatus, currentTextIndex, indexLog>>
       ELSE /\ ttsStatus' = "idle"
            /\ currentTextIndex' = 0
            /\ indexLog' = [indexLog EXCEPT ![r] = Append(@, 0)]
            /\ pcRun' = [pcRun EXCEPT ![r] = AfterPlay(r, "done")]
    /\ UNCHANGED <<canvasElement, textElements, recordingStatus, error, ttsSupported,
                   runTexts, runSession, statusAtInvoke, narrIdx, cancelled, spoken,
                   stopped, spokenAtStop, failedAt, queueAtPlay, stops>>
    /\ UNCHANGED recVars

\* utterance.onend: speak() resolves; the loop pauses 500 ms before the next
\* entry, or ends (setTtsStatus('idle'), setCurrentTextIndex(0)) and
\* handleTTSPlay returns (a run starts its 1000 ms wait).
UtteranceEnds(r) ==
    /\ pcRun[r] = "speaking"
    /\ synthQueue # <<>> /\ Head(synthQueue) = r
    /\ synthQueue' = Tail(synthQueue)
    /\ finished' = [finished EXCEPT ![r] = @ + 1]
    /\ IF narrIdx[r] < Len(runTexts[r])
       THEN /\ pcRun' = [pcRun EXCEPT ![r] = "pausing"]
            /\ pauses' = [pauses EXCEPT ![r] = @ + 1]
            /\ UNCHANGED <<ttsStatus, currentTextIndex, indexLog>>
       ELSE /\ ttsStatus' = "idle"
            /\ currentTextIndex' = 0
            /\ indexLog' = [indexLog EXCEPT ![r] = Append(@, 0)]
            /\ pcRun' = [pcRun EXCEPT ![r] = AfterPlay(r, "done")]
            /\ UNCHANGED pauses
    /\ UNCHANGED <<canvasElement, textElements, recordingStatus, error, ttsSupported,
                   runTexts, runSession, statusAtInvoke, narrIdx, cancelled, spoken,
                   stopped, spokenAtStop, failedAt, queueAtPlay, stops>>
    /\ UNCHANGED recVars

\* Mutant: a failed utterance is passed over and the loop goes on
speakRejected_goesOn(r) ==
    /\ failedAt' = [failedAt EXCEPT ![r] = narrIdx[r]]
    /\ IF narrIdx[r] < Len(runTexts[r])
       THEN /\ pcRun' = [pcRun EXCEPT ![r] = "pausing"]
            /\ UNCHANGED <<error, ttsStatus>>
       ELSE /\ error' = "ttsPlayback"
            /\ ttsStatus' = "idle"
            /\ pcRun' = [pcRun EXCEPT ![r] = AfterPlay(r, "failed")]

\* speak() rejects: options.onError (setError), then the catch block of
\* handleTTSPlay (setError, setTtsStatus('idle')), and handleTTSPlay returns.
speakRejected(r) ==
    /\ failedAt' = [failedAt EXCEPT ![r] = narrIdx[r]]
    /\ error' = "ttsPlayback"
    /\ ttsStatus' = "idle"
    /\ pcRun' = [pcRun EXCEPT ![r] = AfterPlay(r, "failed")]

\* utterance.onerror while the utterance is being spoken
UtteranceErrors(r) ==
    /\ pcRun[r] = "speaking"
    /\ synthQueue # <<>> /\ Head(synthQueue) = r
    /\ synthQueue' = Tail(synthQueue)
    /\ speakRejected(r)
    /\ UNCHANGED <<canvasElement, textElements, recordingStatus, currentTextIndex,
                   ttsSupported, runTexts, runSession, statusAtInvoke, narrIdx,
                   cancelled, spoken, indexLog, finished, pauses, stopped, spokenAtStop,
                   queueAtPlay, stops>>
    /\ UNCHANGED recVars

\* utterance.onerror ('interrupted' or 'canceled') of an utterance that
\* speechSynthesis.cancel() removed
UtteranceCancelled(r) ==
    /\ pcRun[r] = "speaking"
    /\ r \in cancelled
    /\ cancelled' = cancelled \ {r}
    /\ speakRejected(r)
    /\ UNCHANGED <<canvasElement, textElements, recordingStatus, currentTextIndex,
                   ttsSupported, runTexts, runSession, statusAtInvoke, narrIdx,
                   synthQueue, spoken, indexLog, finished, pauses, stopped, spokenAtStop,
                   queueAtPlay, stops>>
    /\ UNCHANGED recVars

\* Mutant: the loop variable is not advanced, the same entry is spoken again
PauseElapsed_sameEntry(r) ==
    /\ pcRun[r] = "pausing"
    /\ Len(spoken[r]) <= MaxTexts
    /\ currentTextIndex' = narrIdx[r] - 1
    /\ indexLog' = [indexLog EXCEPT ![r] = Append(@, narrIdx[r] - 1)]
    /\ speak(r, entryToSpeak(runTexts[r], textElements, narrIdx[r]))
    /\ pcRun' = [pcRun EXCEPT ![r] = "speaking"]
    /\ UNCHANGED <<canvasElement, textElements, recordingStatus, ttsStatus, error,
                   ttsSupported, runTexts, runSession, statusAtInvoke, narrIdx,
                   finished, pauses, stopped, spokenAtStop, failedAt, queueAtPlay, stops>>
    /\ UNCHANGED recVars

\* The 500 ms pause between entries is over: the next turn of the loop
\* (setCurrentTextIndex(i), speak(textElements[i]))
PauseElapsed(r) ==
    /\ pcRun[r] = "pausing"
    /\ narrIdx' = [narrIdx EXCEPT ![r] = @ + 1]
    /\ currentTextIndex' = narrIdx[r]
    /\ indexLog' = [indexLog EXCEPT ![r] = Append(@, narrIdx[r])]
    /\ speak(r, entryToSpeak(runTexts[r], textElements, narrIdx[r] + 1))
    /\ pcRun' = [pcRun EXCEPT ![r] = "speaking"]
    /\ UNCHANGED <<canvasElement, textElements, recordingStatus, ttsStatus, error,
                   ttsSupported, runTexts, runSession, statusAtInvoke, finished, pauses,
                   stopped, spokenAtStop, failedAt, queueAtPlay, stops>>
    /\ UNCHANGED recVars

\* The 1000 ms wait is over: videoRecordingService.stopRecording().
\* stopThrows: MediaRecorder.stop() threw InvalidStateError on an inactive recorder.
TrailingElapsed(r) ==
    /\ r \in Runs
    /\ pcRun[r] = "trailing"
    /\ recState' = stopRecording(isRecording, mediaRecorder, recState)
    /\ \E stopThrows \in BOOLEAN :
         /\ stopThrows => (isRecording /\ mediaRecorder # 0
                             /\ recState[mediaRecorder] = "inactive")
         /\ IF stopThrows THEN RunCatch(r)
            ELSE /\ pcRun' = [pcRun EXCEPT ![r] = "done"]
                 /\ UNCHANGED <<recordingStatus, error>>
    /\ UNCHANGED <<canvasElement, textElements, ttsStatus, currentTextIndex,
                   ttsSupported, runTexts, runSession, statusAtInvoke, narrIdx,
                   synthQueue, narrHist>>
    /\ UNCHANGED <<supported, isRecording, mediaRecorder, canvasStream, mixedStream,
                   recordedChunks, pcStart, vtrack, atrack, mixedVideo, recPhase, ended>>

(***************************************************************************)
(* Export: the choice of the recorder's media type and downloadVideo       *)
(*                                                                         *)
(* Both are functions of their arguments alone; each is applied here to    *)
(* every argument of a small set and its result kept.                      *)
(***************************************************************************)
VARIABLES
    selection,   \* the last choice of a media type: platform, option, mimeType
    download     \* the last downloadVideo call: type, filename, name of the file

exportVars == <<selection, download>>

NoSelection == [called |-> FALSE]
NoDownload == [called |-> FALSE]

\* options.mimeType as a caller of startRecording may pass it
MimeOptions == {NoMimeOption, StrVideo \o StrMp4}

\* The types a blob handed to downloadVideo may carry: those of the list, the
\* empty string, and one with "mp4" inside a longer word
BlobTypes ==
    {PreferredTypes[i] : i \in 1..Len(PreferredTypes)}
      \cup {<<>>, StrVideo \o StrMp4 \o <<"v", "-", "e", "s">>}

\* File names: the default 'visufix-video', and one that itself reads 'mp4'
FileNames ==
    {<<"v", "i", "s", "u", "f", "i", "x", "-", "v", "i", "d", "e", "o">>, StrMp4}

\* String.prototype.includes
includes(str, sub) ==
    \E i \in 0..(Len(str) - Len(sub)) : SubSeq(str, i + 1, i + Len(sub)) = sub

\* Mutant: the extension does not depend on the type
extensionOf_alwaysWebm(type) == StrWebm

\* downloadVideo: the extension, from blob.type
extensionOf(type) == IF includes(type, StrMp4) THEN StrMp4 ELSE StrWebm

\* downloadVideo: a.download
downloadName(type, filename) == filename \o <<".">> \o extensionOf(type)

ExportInit ==
    /\ selection = NoSelection
    /\ download = NoDownload

\* startRecording: the media type for the MediaRecorder, on a platform and
\* with an option
SelectMimeType ==
    /\ \E platform \in Platforms, option \in MimeOptions :
         selection' = [called |-> TRUE, platform |-> platform, option |-> option,
                       mimeType |-> negotiatedMimeType(option,
                                        getSupportedMimeTypes(platform))]
    /\ UNCHANGED download

\* downloadVideo(blob, filename): the anchor is made, clicked and removed and
\* the object URL revoked; what stays is the file, under its name
DownloadVideo ==
    /\ \E type \in BlobTypes, filename \in FileNames :
         download' = [called |-> TRUE, type |-> type, filename |-> filename,
                      name |-> downloadName(type, filename)]
    /\ UNCHANGED selection

vars == <<pollerVars, recVars, appVars, exportVars>>

Init == PollerInit /\ RecorderInit /\ AppInit /\ ExportInit

\* One pollUntilComplete call on its own poller, as AIVideoGenerator makes them
PollerNext ==
    \/ PollUntilComplete(1) /\ UNCHANGED <<recVars, appVars, exportVars>>
    \/ CheckSettles(1) /\ UNCHANGED <<recVars, appVars, exportVars>>
    \/ TimerFires(1) /\ UNCHANGED <<recVars, appVars, exportVars>>
    \/ StopPolling /\ UNCHANGED <<recVars, appVars, exportVars>>

SpecPoller == Init /\ [][PollerNext]_vars

RecorderNext ==
    \/ Dispose /\ UNCHANGED <<pollerVars, appVars, exportVars>>
    \/ StopRecording /\ UNCHANGED <<pollerVars, appVars, exportVars>>
    \/ \E s \in Sessions : StartRecording(s) /\ UNCHANGED <<pollerVars, appVars, exportVars>>
    \/ \E s \in Sessions : MicSettles(s) /\ UNCHANGED <<pollerVars, appVars, exportVars>>
    \/ \E s \in Sessions : OnStart(s) /\ UNCHANGED <<pollerVars, appVars, exportVars>>
    \/ \E s \in Sessions : OnDataAvailable(s) /\ UNCHANGED <<pollerVars, appVars, exportVars>>
    \/ \E s \in Sessions : OnStop(s) /\ UNCHANGED <<pollerVars, appVars, exportVars>>
    \/ \E s \in Sessions : OnError(s) /\ UNCHANGED <<pollerVars, appVars, exportVars>>
    \/ \E s \in Sessions : TracksEnded(s) /\ UNCHANGED <<pollerVars, appVars, exportVars>>

SpecRecorder == Init /\ [][RecorderNext]_vars

\* The App: the user, the timers and the platform's events
AppNext ==
    \/ CanvasReady /\ UNCHANGED <<pollerVars, exportVars>>
    \/ SetTextElements /\ UNCHANGED <<pollerVars, exportVars>>
    \/ \E r \in Runs : HandleDownloadMP4(r) /\ UNCHANGED <<pollerVars, exportVars>>
    \/ \E s \in Sessions : RunMicSettles(s) /\ UNCHANGED <<pollerVars, exportVars>>
    \/ \E s \in Sessions : OnStart(s) /\ UNCHANGED <<pollerVars, appVars, exportVars>>
    \/ \E s \in Sessions : OnDataAvailable(s) /\ UNCHANGED <<pollerVars, appVars, exportVars>>
    \/ \E s \in Sessions : AppOnStop(s) /\ UNCHANGED <<pollerVars, exportVars>>
    \/ \E s \in Sessions : AppOnError(s) /\ UNCHANGED <<pollerVars, exportVars>>
    \/ \E s \in Sessions : TracksEnded(s) /\ UNCHANGED <<pollerVars, appVars, exportVars>>
    \/ \E r \in Runs : GraceElapsed(r) /\ UNCHANGED <<pollerVars, exportVars>>
    \/ \E r \in Runs : UtteranceEnds(r) /\ UNCHANGED <<pollerVars, exportVars>>
    \/ \E r \in Runs : UtteranceErrors(r) /\ UNCHANGED <<pollerVars, exportVars>>
    \/ \E r \in Runs : PauseElapsed(r) /\ UNCHANGED <<pollerVars, exportVars>>
    \/ \E r \in Runs : TrailingElapsed(r) /\ UNCHANGED <<pollerVars, exportVars>>

SpecApp == Init /\ [][AppNext]_vars

\* The narration on its own: the Play/Stop TTS button, the text edits, the
\* pause timers and the speech engine's events
NarrationNext ==
    \/ SetTextElements /\ UNCHANGED <<pollerVars, exportVars>>
    \/ \E p \in Plays : HandlePlayTTS(p) /\ UNCHANGED <<pollerVars, exportVars>>
    \/ HandleTTSStop /\ UNCHANGED <<pollerVars, exportVars>>
    \/ \E r \in Narrators : UtteranceEnds(r) /\ UNCHANGED <<pollerVars, exportVars>>
    \/ \E r \in Narrators : UtteranceErrors(r) /\ UNCHANGED <<pollerVars, exportVars>>
    \/ \E r \in Narrators : UtteranceCancelled(r) /\ UNCHANGED <<pollerVars, exportVars>>
    \/ \E r \in Narrators : PauseElapsed(r) /\ UNCHANGED <<pollerVars, exportVars>>

SpecNarration == Init /\ [][NarrationNext]_vars

\* pollUntilComplete called again on the same instance, by an owner that looks
\* at isCurrentlyPolling first: the instance has been stopped, and the check
\* the earlier call was waiting for is not answered yet
PollAgain(c) ==
    /\ c > 1
    /\ inFlight[c - 1]
    /\ ~isPolling
    /\ PollUntilComplete(c)

\* One poller instance that is used again after it was stopped
PollerReuseNext ==
    \/ PollUntilComplete(1) /\ UNCHANGED <<recVars, appVars, exportVars>>
    \/ \E c \in Calls : PollAgain(c) /\ UNCHANGED <<recVars, appVars, exportVars>>
    \/ \E c \in Calls : CheckSettles(c) /\ UNCHANGED <<recVars, appVars, exportVars>>
    \/ \E c \in Calls : TimerFires(c) /\ UNCHANGED <<recVars, appVars, exportVars>>
    \/ StopPolling /\ UNCHANGED <<recVars, appVars, exportVars>>

\* The poller looks at none of the browser's capabilities: one browser is enough
PollerReuseInit == Init /\ supported /\ ttsSupported

SpecPollerReuse == PollerReuseInit /\ [][PollerReuseNext]_vars

\* The Play/Stop TTS button beside one export: the App with its first
\* handleDownloadMP4 invocation, whose recorder runs without an error
PlayAndExportNext ==
    \/ CanvasReady /\ UNCHANGED <<pollerVars, exportVars>>
    \/ SetTextElements /\ UNCHANGED <<pollerVars, exportVars>>
    \/ HandleDownloadMP4(1) /\ UNCHANGED <<pollerVars, exportVars>>
    \/ \E s \in Sessions : RunMicSettles(s) /\ UNCHANGED <<pollerVars, exportVars>>
    \/ \E s \in Sessions : OnStart(s) /\ UNCHANGED <<pollerVars, appVars, exportVars>>
    \/ \E s \in Sessions : OnDataAvailable(s) /\ UNCHANGED <<pollerVars, appVars, exportVars>>
    \/ \E s \in Sessions : AppOnStop(s) /\ UNCHANGED <<pollerVars, exportVars>>
    \/ \E r \in Runs : GraceElapsed(r) /\ UNCHANGED <<pollerVars, exportVars>>
    \/ \E r \in Runs : TrailingElapsed(r) /\ UNCHANGED <<pollerVars, exportVars>>
    \/ \E p \in Plays : HandlePlayTTS(p) /\ UNCHANGED <<pollerVars, exportVars>>
    \/ HandleTTSStop /\ UNCHANGED <<pollerVars, exportVars>>
    \/ \E r \in Narrators : UtteranceEnds(r) /\ UNCHANGED <<pollerVars, exportVars>>
    \/ \E r \in Narrators : UtteranceErrors(r) /\ UNCHANGED <<pollerVars, exportVars>>
    \/ \E r \in Narrators : UtteranceCancelled(r) /\ UNCHANGED <<pollerVars, exportVars>>
    \/ \E r \in Narrators : PauseElapsed(r) /\ UNCHANGED <<pollerVars, exportVars>>

SpecPlayAndExport == Init /\ [][PlayAndExportNext]_vars

\* The export's functions on their own
ExportNext ==
    \/ SelectMimeType /\ UNCHANGED <<pollerVars, recVars, appVars>>
    \/ DownloadVideo /\ UNCHANGED <<pollerVars, recVars, appVars>>

SpecExport == Init /\ [][ExportNext]_vars

\* The network answers every request and the event loop runs every due timer.
FairSpecPoller ==
    SpecPoller /\ WF_pollerVars(CheckSettles(1)) /\ WF_pollerVars(TimerFires(1))

(***************************************************************************)
(* Claims about VideoRecordingService                                      *)
(***************************************************************************)
\* C1: once a recording session has ended (stop event, recorder error, failed
\* startRecording or dispose) none of the tracks it acquired is still live.
C1_NoLiveTrackAfterSessionEnd ==
    \A s \in Sessions :
        ended[s] => (vtrack[s] # "live" /\ atrack[s] # "live")

\* C2: at most one session is active at a time, and a startRecording call made
\* while another session is active is refused at once: it captures no canvas
\* stream, requests no microphone and creates no recorder.
C2_OneSessionAtATime ==
    /\ [](Cardinality({s \in Sessions : Active(s)}) <= 1)
    /\ [][\A s \in Sessions :
            (pcStart[s] = "idle" /\ pcStart'[s] # "idle"
                /\ \E t \in Sessions : Active(t))
              => (pcStart'[s] = "refused" /\ vtrack'[s] = "none"
                    /\ canvasStream' = canvasStream)]_vars

\* C20: the resources of a session are released once: the recorder's stop
\* handler does not run cleanup() for a session whose resources were released
\* already (by its error handler or by dispose).
C20_ReleasedOnce ==
    [][\A s \in Sessions :
        (recPhase[s] # "stopped" /\ recPhase'[s] = "stopped") => ~ended[s]]_vars

(***************************************************************************)
(* Claims about handleDownloadMP4                                          *)
(***************************************************************************)
RunInProgress(r) ==
    pcRun[r] \in {"starting", "grace", "speaking", "pausing", "trailing"}

Settled(c) == pollPromise[c] \in {"resolved", "rejected"}

CancelledError ==
    [kind |-> "error", error |-> AIVideoError("Video generation was cancelled", 0)]

LastOf(seq) == seq[Len(seq)]

\* C4: every pollUntilComplete call eventually settles (resolved with Succeeded,
\* or rejected on Failed, a check error or cancellation), also once stopPolling()
\* was called while the wait was pending.
C4_EveryCallSettles ==
    \A c \in Calls : (pollPromise[c] = "pending") ~> Settled(c)

\* C5: after stopPolling() the call starts no further status check: the number
\* of checks issued stays what it was at the cancel and no timer stays armed.
C5_NoCheckAfterCancel ==
    \A c \in Calls :
        cancelPhase[c] # "none" =>
            /\ checks[c] = checksAtCancel[c]
            /\ ~timerArmed[c]

\* C5 witness: cancelled right after the start, the first check then came back
\* with a non-terminal status.
C5_Witness ==
    /\ cancelPhase[1] = "inflight"
    /\ checksAtCancel[1] = 1
    /\ Len(returned[1]) = 1
    /\ returned[1][1].ok
    /\ returned[1][1].status.status = "RUNNING"

\* C6: a check that was in flight when stopPolling() was called is discarded:
\* the cancelled wait never resolves with a Succeeded payload.
C6_CancelledInFlightNeverResolves ==
    \A c \in Calls :
        cancelPhase[c] = "inflight" => pollPromise[c] # "resolved"

\* C7: stopPolling() called from inside onUpdate for a non-terminal status makes
\* the wait reject as cancelled at that decision point: the check had run to
\* its end (its update was delivered) and no next check is scheduled.
C7_CancelInUpdateRejects ==
    \A c \in Calls :
        (cancelPhase[c] = "update" /\ LastOf(updates[c]).status \notin Terminal) =>
            /\ pollPromise[c] = "rejected"
            /\ pollValue[c] = CancelledError
            /\ Len(updates[c]) = checks[c]
            /\ checks[c] = checksAtCancel[c]
            /\ ~timerArmed[c]
            /\ ~inFlight[c]

\* C7 witness: the callback of the second check cancelled on a Running status.
C7_Witness ==
    /\ cancelPhase[1] = "update"
    /\ Len(updates[1]) = 2
    /\ updates[1][2].status = "RUNNING"
    /\ pollPromise[1] = "rejected"

\* C8: the first check is issued at once (no timer before it), and if it
\* reports SUCCEEDED the call resolves with that status after exactly one
\* check, one onUpdate, no timer and no second check.
C8_FirstCheckSucceeded ==
    \A c \in Calls :
        /\ (pollPromise[c] = "pending" /\ returned[c] = <<>>) =>
              (inFlight[c] /\ checks[c] = 1 /\ ~timerArmed[c])
        /\ (returned[c] # <<>> /\ returned[c][1].ok
              /\ returned[c][1].status.status = "SUCCEEDED") =>
              /\ pollPromise[c] = "resolved"
              /\ pollValue[c] = [kind |-> "status", status |-> returned[c][1].status]
              /\ checks[c] = 1
              /\ updates[c] = <<returned[c][1].status>>
              /\ ~timerArmed[c]
              /\ ~inFlight[c]
              /\ intervalId = NoTimer

\* C8 witness: one check, Succeeded, resolved.
C8_Witness ==
    /\ Len(returned[1]) = 1
    /\ returned[1][1].ok
    /\ returned[1][1].status.status = "SUCCEEDED"
    /\ pollPromise[1] = "resolved"

\* C9: onUpdate is invoked exactly once per check that returned a status, with
\* the statuses in the order observed, and when the last one is SUCCEEDED the
\* promise is resolved with exactly that payload.
C9_UpdatesFollowChecks ==
    \A c \in Calls :
        /\ Len(updates[c]) <= Len(returned[c])
        /\ \A i \in 1..Len(returned[c]) :
              returned[c][i].ok =>
                  /\ i <= Len(updates[c])
                  /\ updates[c][i] = returned[c][i].status
        /\ (returned[c] # <<>> /\ LastOf(returned[c]).ok
              /\ LastOf(returned[c]).status.status = "SUCCEEDED") =>
              /\ pollPromise[c] = "resolved"
              /\ pollValue[c] = [kind |-> "status", status |-> LastOf(returned[c]).status]

\* C9 witness: Pending, Running, Succeeded: three updates in that order.
C9_Witness ==
    /\ Len(updates[1]) = 3
    /\ updates[1][1].status = "PENDING"
    /\ updates[1][2].status = "RUNNING"
    /\ updates[1][3].status = "SUCCEEDED"
    /\ pollPromise[1] = "resolved"
    /\ pollValue[1].status = updates[1][3]

\* C10: a check that throws rejects the call with that error at once: it is the
\* last check of the call (no retry, no timer).
C10_CheckErrorRejects ==
    \A c \in Calls :
        \A i \in 1..Len(returned[c]) :
            ~returned[c][i].ok =>
                /\ i = Len(returned[c])
                /\ checks[c] = i
                /\ pollPromise[c] = "rejected"
                /\ pollValue[c] = [kind |-> "error", error |-> returned[c][i].error]
                /\ ~timerArmed[c]
                /\ ~inFlight[c]

\* C10 witness: Running, then a network error on the next check.
C10_Witness ==
    /\ Len(returned[1]) = 2
    /\ returned[1][1].ok
    /\ returned[1][1].status.status = "RUNNING"
    /\ ~returned[1][2].ok
    /\ returned[1][2].error.message = "Failed to check video status: network"
    /\ pollPromise[1] = "rejected"

\* C11: a check that returned SUCCEEDED or FAILED is the last check of its call:
\* no request is issued after it and no timer is pending; after FAILED the call
\* is rejected with the job's error message (status.error, or the default text
\* when the job gave none).
C11_TerminalStopsPolling ==
    \A c \in Calls :
        \A i \in 1..Len(returned[c]) :
            (returned[c][i].ok /\ returned[c][i].status.status \in Terminal) =>
                /\ i = Len(returned[c])
                /\ checks[c] = i
                /\ ~timerArmed[c]
                /\ ~inFlight[c]
                /\ returned[c][i].status.status = "FAILED" =>
                      /\ pollPromise[c] = "rejected"
                      /\ pollValue[c] =
                            [kind |-> "error",
                             error |-> AIVideoError(
                                 IF returned[c][i].status.error # "none"
                                 THEN returned[c][i].status.error
                                 ELSE "Video generation failed", 0)]

\* C11 witness: Running, then FAILED with the job's error "quota".
C11_Witness ==
    /\ Len(returned[1]) = 2
    /\ returned[1][1].ok /\ returned[1][1].status.status = "RUNNING"
    /\ returned[1][2].ok /\ returned[1][2].status.status = "FAILED"
    /\ returned[1][2].status.error = "quota"
    /\ pollPromise[1] = "rejected"
    /\ pollValue[1].error.message = "quota"

\* C12: within a call at most one check is unanswered at any time (requests
\* issued minus requests answered), and while one is unanswered no timer for
\* the next is pending: the timer for check k+1 is armed only in the step in
\* which check k was answered and onUpdate ran.
C12_NoOverlappingChecks ==
    /\ [](\A c \in Calls :
            /\ checks[c] - Len(returned[c]) \in {0, 1}
            /\ inFlight[c] <=> (checks[c] - Len(returned[c]) = 1)
            /\ ~(inFlight[c] /\ timerArmed[c]))
    /\ [][\A c \in Calls :
            (~timerArmed[c] /\ timerArmed'[c]) =>
                /\ Len(returned'[c]) = Len(returned[c]) + 1
                /\ Len(returned'[c]) = checks[c]
                /\ Len(updates'[c]) = Len(updates[c]) + 1
                /\ ~inFlight'[c]]_vars

\* C12 witness: a second check is in flight after the first was answered and
\* reported, and no timer is pending beside it.
C12_Witness ==
    /\ checks[1] = 2
    /\ inFlight[1]
    /\ Len(returned[1]) = 1
    /\ Len(updates[1]) = 1
    /\ ~timerArmed[1]

(***************************************************************************)
(* Claims about the narration (handleTTSPlay, handleTTSStop, ttsService)   *)
(***************************************************************************)
\* Every utterance of the narrator has ended and handleTTSPlay has returned
NarrationCompleted(r) ==
    Len(runTexts[r]) > 0 /\ finished[r] = Len(runTexts[r])

\* The setCurrentTextIndex calls of a narration that has made k speak calls:
\* 0 before the loop, i before entry i is spoken, 0 again after the last entry
IndexTrail(k, completed) ==
    <<0>> \o [i \in 1..k |-> i - 1] \o (IF completed THEN <<0>> ELSE <<>>)

\* C13: a narration calls speak once per entry of its queue, in index order;
\* setCurrentTextIndex(i) is called before entry i is spoken and before
\* setCurrentTextIndex(i+1); and speak for the next entry is called only after
\* onend of the entry before has fired.
C13_SpeakOncePerEntryInOrder ==
    /\ [](\A r \in Narrators :
            /\ Len(spoken[r]) <= Len(runTexts[r])
            /\ \A k \in 1..Len(spoken[r]) : spoken[r][k] = runTexts[r][k]
            /\ NarrationCompleted(r) => spoken[r] = runTexts[r]
            /\ Len(spoken[r]) > 0 =>
                 indexLog[r] = IndexTrail(Len(spoken[r]), NarrationCompleted(r)))
    /\ [][\A r \in Narrators :
            Len(spoken'[r]) # Len(spoken[r]) =>
                /\ Len(spoken'[r]) = Len(spoken[r]) + 1
                /\ finished[r] = Len(spoken[r])
                /\ indexLog'[r][Len(indexLog'[r])] = Len(spoken[r])]_vars

\* C13 witness: a narration of two entries has ended, both utterances succeeded.
C13_Witness ==
    \E p \in Plays :
        /\ pcRun[p] = "done"
        /\ runTexts[p] = <<1, 2>>
        /\ spoken[p] = <<1, 2>>
        /\ finished[p] = 2
        /\ failedAt[p] = 0
        /\ indexLog[p] = <<0, 0, 1, 0>>

\* C14: once handleTTSStop has run while a narration was running, that
\* narration makes no further speak call.
C14_NoEntryAfterStop ==
    \A r \in Narrators : stopped[r] => Len(spoken[r]) = spokenAtStop[r]

\* C15: a narration of n entries whose utterances all succeeded has made n speak
\* calls and n-1 pauses; while it runs, one pause was begun after each entry
\* that ended except the last.
C15_PausesBetweenEntries ==
    \A r \in Narrators :
        /\ NarrationCompleted(r) =>
              /\ Len(spoken[r]) = Len(runTexts[r])
              /\ pauses[r] = Len(runTexts[r]) - 1
              /\ ~Narrating(r)
        /\ (Len(runTexts[r]) > 0 /\ ~NarrationCompleted(r)) => pauses[r] = finished[r]

\* C15 witness: ["Hello", "World"]: two speak calls, one pause.
C15_Witness ==
    \E p \in Plays :
        /\ pcRun[p] = "done"
        /\ Len(runTexts[p]) = 2
        /\ Len(spoken[p]) = 2
        /\ pauses[p] = 1

\* C16: when the utterance of entry i fails, the narration ends there: entry i
\* was the last speak call (no later entry, no retry), handleTTSPlay has
\* returned, and in the step of the failure the error is shown and ttsStatus is
\* set to 'idle'.
C16_UtteranceErrorAborts ==
    /\ [](\A r \in Narrators :
            failedAt[r] # 0 =>
                /\ Len(spoken[r]) = failedAt[r]
                /\ finished[r] = failedAt[r] - 1
                /\ ~Narrating(r))
    /\ [][\A r \in Narrators :
            failedAt'[r] # failedAt[r] =>
                /\ ttsStatus' = "idle"
                /\ error' = "ttsPlayback"]_vars

\* C16 witness: the first of two entries failed while it was spoken (no stop)
C16_Witness ==
    \E p \in Plays :
        /\ Len(runTexts[p]) = 2
        /\ failedAt[p] = 1
        /\ ~stopped[p]
        /\ pcRun[p] = "failed"
        /\ Len(spoken[p]) = 1

\* C17: handleTTSPlay invoked with a non-empty queue where speech synthesis is
\* missing returns at once with the unsupported message: no speak call, and
\* currentTextIndex and ttsStatus are left as they were.
C17_UnsupportedFailsFirst ==
    /\ [](~ttsSupported =>
            /\ synthQueue = <<>>
            /\ \A r \in Narrators : spoken[r] = <<>> /\ indexLog[r] = <<>>)
    /\ [][\A r \in Narrators :
            (/\ ~ttsSupported
             /\ \/ r \in Plays /\ pcRun[r] = "idle" /\ pcRun'[r] # "idle"
                \/ r \in Runs /\ pcRun[r] = "grace" /\ pcRun'[r] # "grace")
              => (/\ pcRun'[r] = AfterPlay(r, "refused")
                  /\ error' = "ttsUnsupported"
                  /\ spoken' = spoken
                  /\ currentTextIndex' = currentTextIndex
                  /\ ttsStatus' = ttsStatus)]_vars

\* C17 witness: Play TTS was clicked with text on the canvas and no speech synthesis
C17_Witness ==
    \E p \in Plays :
        /\ ~ttsSupported
        /\ pcRun[p] = "refused"
        /\ Len(runTexts[p]) > 0
        /\ error = "ttsUnsupported"
        /\ spoken[p] = <<>>

\* C18: the engine holds at most one utterance at a time, and a speak call
\* leaves its own utterance as the only one the engine holds (what it held
\* before is cancelled).
C18_OneUtteranceAtATime ==
    /\ [](Len(synthQueue) <= 1)
    /\ [][\A r \in Narrators :
            Len(spoken'[r]) > Len(spoken[r]) => synthQueue' = <<r>>]_vars

C21_ResolvedMeansRecording ==
    [][\A s \in Sessions :
        (pcStart[s] # "resolved" /\ pcStart'[s] = "resolved")
          => (isRecording' /\ recPhase'[s] = "started")]_vars

\* C22: on a platform where isSupported() is false, startRecording rejects with
\* the unsupported-capability error before anything is acquired: no canvas
\* capture, no microphone request, no recorder, and no field of the service
\* changes.
C22_UnsupportedRejectsFirst ==
    [][\A s \in Sessions :
        (~supported /\ pcStart[s] = "idle" /\ pcStart'[s] # "idle")
          => /\ startGuard(supported, isRecording) = "unsupported"
             /\ pcStart'[s] = "refused"
             /\ vtrack'[s] = "none" /\ atrack'[s] = "none"
             /\ recState'[s] = "none"
             /\ UNCHANGED <<isRecording, mediaRecorder, canvasStream, mixedStream,
                            recordedChunks, vtrack, atrack, mixedVideo, recState,
                            recPhase>>]_vars

C22_Witness ==
    \E s \in Sessions :
        ~supported /\ pcStart[s] = "refused" /\ vtrack[s] = "none"

\* C23: when a setup step of startRecording fails (captureStream throws, or the
\* MediaRecorder constructor or its start(100) throws), the call rejects with
\* every track the session has acquired stopped, the microphone track included,
\* and the service idle: no stream, no recorder, not recording.
C23_FailedSetupReleases ==
    [][\A s \in Sessions :
        (/\ pcStart[s] = "idle" \/ (pcStart[s] = "awaitMic" /\ canvasStream # 0)
         /\ pcStart'[s] = "failed")
          => /\ vtrack'[s] # "live" /\ atrack'[s] # "live"
             /\ canvasStream' = 0 /\ mixedStream' = 0 /\ mediaRecorder' = 0
             /\ ~isRecording']_vars

\* The recorder of session s raises its error event in this step (in the App,
\* where nothing but the recorder's own handlers ends a started session)
ErrorEventOf(s) ==
    /\ recPhase[s] = "started" /\ recPhase'[s] = "started"
    /\ recState[s] = "recording" /\ recState'[s] = "inactive"
    /\ ~ended[s] /\ ended'[s]

\* C24: an error of the recorder while it records ends the session as failed:
\* the onError callback runs (the App shows the failure and goes back to
\* 'idle'), every track of the session is stopped, the service holds no stream
\* and no recorder and is not recording, so the next startRecording passes the
\* guards.
C24_EngineErrorReleases ==
    [][\A s \in Sessions :
        ErrorEventOf(s)
          => /\ error' = "recordingFailed"
             /\ recordingStatus' = "idle"
             /\ vtrack'[s] # "live" /\ atrack'[s] # "live"
             /\ canvasStream' = 0 /\ mixedStream' = 0 /\ mediaRecorder' = 0
             /\ ~isRecording'
             /\ startGuard(supported, isRecording') = "go"]_vars

\* A session failed by a recorder error, its stop event not yet delivered
C24_Witness ==
    \E s \in Sessions :
        /\ recPhase[s] = "started" /\ recState[s] = "inactive" /\ ended[s]
        /\ error = "recordingFailed"

\* C25: stopRecording() on a service that is not recording is a no-op: the
\* recorder's stop() is not called, so no recorder changes state (and none
\* fires a stop event or a callback because of the call); the service's
\* fields are not touched by stopRecording at all.
C25_StopWhenIdleIsNoOp ==
    ~isRecording => stopRecording(isRecording, mediaRecorder, recState) = recState

\* The service is not recording although it holds a running recorder (the
\* start event is still to come): stop() would act here, were it called
C25_Witness ==
    /\ ~isRecording
    /\ mediaRecorder # 0
    /\ recState[mediaRecorder] = "recording"

onStopBlob(platform) ==
    Blob(recordedChunks, blobMimeType(mediaRecorder, NoMimeOption, platform))

\* C27: the blob handed to onStop holds the slices of its own session and
\* nothing else, in arrival order: while a session is started the chunk list
\* only grows, by that session's slices, and no other session clears it; the
\* blob carries the type the recorder was constructed with, whatever the
\* platform supports; and onStop is called before the session's resources are
\* released.
C27_ArtifactIsSessionSlices ==
    [][\A s \in Sessions :
        /\ (recPhase[s] = "started" /\ recPhase'[s] = "stopped")
             => /\ \A platform \in Platforms :
                     LET blob == onStopBlob(platform) IN
                     /\ \A i \in 1..Len(blob.chunks) : blob.chunks[i] = s
                     /\ blob.type = negotiatedMimeType(NoMimeOption,
                                        getSupportedMimeTypes(platform))
                /\ ~ended[s]
        /\ (recPhase[s] = "started" /\ recPhase'[s] = "started")
             => recordedChunks' \in {recordedChunks, Append(recordedChunks, s)}]_vars

\* C28: a failed microphone request does not fail startRecording: whatever
\* else happens at setup, the call ends as it would have with a microphone, and
\* when it resolves without an audio track the recorder has been created on the
\* video-only stream and started, its start event on the way.
C28_AudioFailureTolerated ==
    /\ [](\A s \in Sessions :
            pcStart[s] = "awaitMic"
              => \A setup \in Setups :
                    setupOutcome(FALSE, canvasStream # 0, setup)
                      = setupOutcome(TRUE, canvasStream # 0, setup))
    /\ [][\A s \in Sessions :
            (pcStart[s] = "awaitMic" /\ pcStart'[s] = "resolved" /\ atrack'[s] = "none")
              => /\ mediaRecorder' = s
                 /\ mixedStream' = s
                 /\ mixedVideo'[s] # 0
                 /\ recState'[s] = "recording"
                 /\ recPhase'[s] = "startQueued"]_vars

\* A session without an audio track that has reached Recording
C28_Witness ==
    \E s \in Sessions :
        /\ pcStart[s] = "resolved"
        /\ atrack[s] = "none"
        /\ recPhase[s] = "started"
        /\ recState[s] = "recording"
        /\ isRecording

(***************************************************************************)
(* Claims about the order of the orchestration's steps                     *)
(***************************************************************************)
\* The steps of a run, as moves of its position
RunSteps ==
    {<<"idle", "refused">>, <<"idle", "starting">>, <<"idle", "failed">>,
     <<"starting", "grace">>, <<"starting", "failed">>,
     <<"grace", "speaking">>, <<"grace", "trailing">>,
     <<"speaking", "pausing">>, <<"pausing", "speaking">>,
     <<"speaking", "trailing">>,
     <<"trailing", "done">>, <<"trailing", "failed">>}

InQueue(r) == \E i \in 1..Len(synthQueue) : synthQueue[i] = r

\* C29: the five steps of a run happen in order, each after the wait of the
\* one before has resolved: startRecording is called when the run begins and
\* the 500 ms wait starts when it has resolved; the narration makes its speak
\* calls only after that wait; the 1000 ms wait starts only when handleTTSPlay
\* has returned, no utterance of the run pending; and the recorder is stopped
\* by the run only when the 1000 ms wait is over.
C29_StepsInOrder ==
    /\ [](\A r \in Runs :
            /\ pcRun[r] = "starting" => pcStart[runSession[r]] = "awaitMic"
            /\ pcRun[r] \in {"grace", "speaking", "pausing", "trailing", "done"}
                 => pcStart[runSession[r]] = "resolved")
    /\ [][\A r \in Runs :
            /\ pcRun'[r] # pcRun[r] => <<pcRun[r], pcRun'[r]>> \in RunSteps
            /\ Len(spoken'[r]) > Len(spoken[r])
                 => (pcRun[r] \in {"grace", "pausing"} /\ pcRun'[r] = "speaking")
            /\ (pcRun[r] # "trailing" /\ pcRun'[r] = "trailing") => ~InQueue(r)'
            /\ (pcRun'[r] # pcRun[r]
                  /\ \E s \in Sessions :
                        recState[s] = "recording" /\ recState'[s] = "inactive")
                 => pcRun[r] = "trailing"]_vars

\* A run that went through all five steps: it spoke its two entries and, its
\* trailing wait over, stopped its recorder
C29_Witness ==
    \E r \in Runs :
        /\ pcRun[r] = "done"
        /\ Len(runTexts[r]) = MaxTexts
        /\ NarrationCompleted(r)
        /\ recState[runSession[r]] = "inactive"
        /\ ~ended[runSession[r]]

\* C30: in every run the recording is active (the recorder of the run's session
\* is recording and its start event has been delivered, so the service says it
\* is recording) when the first speak call of the run's narration is made, and
\* the run stops the recorder only after its narration is over and the
\* trailing wait has elapsed.
C30_RecordingBracketsNarration ==
    [][\A r \in Runs :
        /\ (Len(spoken[r]) = 0 /\ Len(spoken'[r]) > 0)
             => /\ recState[runSession[r]] = "recording"
                /\ recPhase[runSession[r]] = "started"
                /\ isRecording
        /\ (pcRun'[r] # pcRun[r]
              /\ \E s \in Sessions :
                    recState[s] = "recording" /\ recState'[s] = "inactive")
             => (pcRun[r] = "trailing" /\ ~InQueue(r))]_vars

(***************************************************************************)
(* Claims about the orchestration's refusals, failures and independence    *)
(***************************************************************************)
\* C31: an invocation of handleDownloadMP4 made with no canvas element, with an
\* empty text list or on a platform without recording support is refused in
\* that step with the message of the first test that fails; it calls neither
\* startRecording nor speak, and the run never owns a session, so no blob is
\* built or downloaded for it.
C31_NotReadyRefused ==
    /\ [](\A r \in Runs :
            pcRun[r] = "refused" => (runSession[r] = 0 /\ spoken[r] = <<>>))
    /\ [][\A r \in Runs :
            (pcRun[r] = "idle" /\ pcRun'[r] # "idle"
                /\ (~canvasElement \/ Len(textElements) = 0 \/ ~supported))
              => /\ pcRun'[r] = "refused"
                 /\ error' = (CASE ~canvasElement -> "canvasNotReady"
                                [] Len(textElements) = 0 -> "noText"
                                [] OTHER -> "recordingUnsupported")
                 /\ recVars' = recVars
                 /\ spoken' = spoken
                 /\ synthQueue' = synthQueue
                 /\ recordingStatus' = recordingStatus]_vars

\* An invocation refused for want of text, the canvas being ready
C31_Witness ==
    \E r \in Runs :
        /\ pcRun[r] = "refused"
        /\ canvasElement
        /\ textElements = <<>>
        /\ error = "noText"
        /\ statusAtInvoke[r] = "idle"

\* C32: a run whose narration failed still stops its recorder: when its last
\* step is over, the recorder of its session is no longer recording, so the
\* stop handler will release the resources and reset recordingStatus; and a
\* run that ends in the catch block has reset recordingStatus to 'idle'.
C32_FailedRunStopsRecorder ==
    [][\A r \in Runs :
        /\ (pcRun[r] = "trailing" /\ pcRun'[r] # "trailing" /\ failedAt[r] # 0)
             => recState'[runSession[r]] # "recording"
        /\ (pcRun[r] # "failed" /\ pcRun'[r] = "failed")
             => recordingStatus' = "idle"]_vars

\* C33: a run does not go on as if a failed step had succeeded: a run that
\* reaches its end without landing in the catch block has spoken every entry of
\* its queue to the end (no utterance failed, the speech capability was there).
C33_ErrorsAreForwarded ==
    \A r \in Runs :
        pcRun[r] = "done" => (NarrationCompleted(r) /\ failedAt[r] = 0)

\* C34: runs do not interfere: the stopRecording() at the end of a run stops
\* no recorder but the one of the session that this run started.
C34_RunStopsOwnSession ==
    [][\A r \in Runs : \A s \in Sessions :
        (pcRun[r] = "trailing" /\ pcRun'[r] # "trailing"
           /\ recState[s] = "recording" /\ recState'[s] = "inactive")
          => s = runSession[r]]_vars

\* C35: the recorder's stop() is invoked for a session at most once and only
\* while the session is recording: in no state would a call of stopRecording()
\* reach mediaRecorder.stop() on a recorder that is not recording (one that a
\* first call has stopped already, its stop event still to come).
C35_StopOnlyWhileRecording ==
    stopReachesEngine(isRecording, mediaRecorder)
      => recState[mediaRecorder] = "recording"

\* The place of a type in the list of preference (0: not in it)
RankOf(t) ==
    IF \E i \in 1..Len(PreferredTypes) : PreferredTypes[i] = t
    THEN CHOOSE i \in 1..Len(PreferredTypes) : PreferredTypes[i] = t
    ELSE 0

\* What the claim says of a choice: on a platform that supports a type of the
\* list, the supported type of highest preference; otherwise the default
IsClaimedChoice(platform, mimeType) ==
    IF platform # {}
    THEN /\ mimeType \in platform
         /\ \A t \in platform : RankOf(mimeType) <= RankOf(t)
    ELSE mimeType = DefaultMimeType

\* C36: the media type handed to the recorder is always the supported type of
\* highest preference of the fixed list when the platform supports one of
\* them, and the default 'video/webm' when it supports none.
C36_SelectedIsSupportedOrDefault ==
    selection.called => IsClaimedChoice(selection.platform, selection.mimeType)

\* C36, with no mimeType in the options: the choice is the claimed one
C36_WithoutOption ==
    (selection.called /\ selection.option = NoMimeOption)
        => IsClaimedChoice(selection.platform, selection.mimeType)

\* A type string has the letters m, p, 4 next to each other somewhere
ContainsMp4(t) ==
    \E i \in 1..Len(t) :
        /\ i + 2 <= Len(t)
        /\ t[i] = "m" /\ t[i + 1] = "p" /\ t[i + 2] = "4"

\* C37: downloadVideo names the file '<filename>.mp4' if and only if the
\* blob's type contains "mp4", and '<filename>.webm' otherwise, the empty type
\* included; it changes no state of the recorder.
C37_ExtensionFollowsType ==
    /\ [](download.called =>
            /\ ContainsMp4(download.type)
                 <=> download.name = download.filename \o <<".", "m", "p", "4">>
            /\ ~ContainsMp4(download.type)
                 <=> download.name = download.filename \o <<".", "w", "e", "b", "m">>)
    /\ [][download' # download => recVars' = recVars]_vars

C37_Witness ==
    /\ download.called
    /\ download.type = PreferredTypes[5]
    /\ download.filename # StrMp4
    /\ download.name = download.filename \o <<".", "m", "p", "4">>

\* C38: a poller instance never runs two polling loops at once: a call that
\* stopPolling() reached while its check was in flight issues no further
\* check and arms no timer, also when pollUntilComplete is called again on the
\* instance before that check is answered; at most one check is in flight and
\* at most one timer is pending per instance.
C38_OneLoopPerInstance ==
    /\ \A c \in Calls :
         cancelPhase[c] = "inflight"
            => ~timerArmed[c] /\ checks[c] = checksAtCancel[c]
    /\ Cardinality({c \in Calls : inFlight[c]}) <= 1
    /\ Cardinality({c \in Calls : timerArmed[c]}) <= 1

\* C38, its first part alone: the call stopped in flight makes no further check
C38_StoppedCallStops ==
    \A c \in Calls :
        cancelPhase[c] = "inflight" => ~timerArmed[c] /\ checks[c] = checksAtCancel[c]

\* C38, its last part alone: never two timers pending
C38_OneTimer == Cardinality({c \in Calls : timerArmed[c]}) <= 1

\* C39: whenever isCurrentlyRecording() is true the service holds a recorder
\* and its streams (mediaRecorder, canvasStream and mixedStream are not null):
\* a start event delivered after cleanup() or dispose() does not leave the
\* service marked as recording with no recorder.
C39_RecordingHoldsRecorder ==
    isRecording => mediaRecorder # 0 /\ canvasStream # 0 /\ mixedStream # 0

\* C40: at most one narration sequence is running at a time in the app: the
\* export started while a Play-TTS sequence runs, or Play TTS pressed while an
\* earlier sequence has not finished its loop, never gives two loops that
\* issue their speak calls side by side.
C40_OneNarrationAtATime ==
    Cardinality({r \in Narrators : Narrating(r)}) <= 1

Spec == SpecPoller
=============================================================================
